---- MODULE Spec2Model ----
(***************************************************************************)
(* Multi-Source AI Search and Analysis: a model of the concurrent fetch    *)
(* orchestrator (services/data_fetcher.py), the vector store              *)
(* (services/vector_store.py), the AI analyzer (services/ai_analyzer.py),  *)
(* the RAG bot (services/rag_bot.py) and the pipeline coordinator with its *)
(* readers (app.py).                                                       *)
(*                                                                         *)
(* The specifications share the variables:                                 *)
(*   FetchSpec     one fetch_all_sources call after another                *)
(*   StoreSpec     client threads calling the VectorStore operations       *)
(*   PipelineSpec  search submissions, the background runs they start, and *)
(*                 a get_results reader                                    *)
(*   RelevanceSpec the relevance scores of a retrieval of two documents    *)
(*   RagSpec       threads asking questions of a loaded store, with the    *)
(*                 other RAG bot operations and a clear of the store       *)
(***************************************************************************)
EXTENDS Integers, Sequences, FiniteSets, TLC

\* ------------------------------------------------------------------ bounds
\* Number of distinct query strings the model submits.
NumQueries == 1

\* ------------------------------------------------------- program constants
\* future.result(timeout=30)
Timeout == 30
\* 'maxResults': 2
YoutubeMaxResults == 2
\* 'pageSize': 1
NewsPageSize == 1
\* .flatten(limit=5)
TwitterLimit == 5
\* for i in range(5)
YoutubePlaceholders == 5
\* for i in range(5)
NewsPlaceholders == 5
\* for i in range(50)
TwitterPlaceholders == 50

Queries == 1..NumQueries

None == "None"

\* ================================================================ fetcher
VARIABLES
    twitter_client,   \* self.twitter_client: "client" or None
    fpc,              \* position of the fetch_all_sources call
    fquery,           \* its query argument
    cur,              \* how many of the three result() calls are over
    handled,          \* the sources whose result() call is over
    waited,           \* time units spent in the current result() call
    fstate,           \* per source: "idle" | "running" | "done" (the future)
    foutcome,         \* per source: what the provider did in this call
    fres,             \* per source: what the fetcher call produced
    results,          \* the local list results
    timedOut,         \* sources whose result() raised TimeoutError
    completion        \* the sources in the order their fetchers finished

fetchVars == <<twitter_client, fpc, fquery, cur, handled, waited, fstate,
               foutcome, fres, results, timedOut, completion>>

\* ---- the vector store's state
VARIABLES
    documents,   \* self.documents: document objects in insertion order
    index,       \* self.index: the vectors of the FAISS index, in order
    embedding,   \* doc.embedding of every document object (None: not set)
    lock,        \* self.lock: Free or the thread holding it
    call,        \* per thread: the VectorStore call it is executing
    passed       \* documents passed to the add_documents calls that have
                 \* returned since the list was last cleared

storeVars == <<documents, index, embedding, lock, call, passed>>

\* ---- the coordinator's state (app.py)
VARIABLES
    processing_status,  \* the global dict processing_status
    current_analysis,   \* the global dict current_analysis: per key, the run
                        \* that wrote the value (0: the key is absent)
    nextRun,            \* how many background threads search() has started
    rpc,                \* per run: position in process_search_async
    rquery,             \* per run: its query argument
    rdocs,              \* per run: the local documents
    rgen,               \* per run: what the generator did for the summary
                        \* and for the insights
    rfault,             \* per run: the exception caught by the handler
    snapAtStart,        \* per run: current_analysis when it was submitted
    overlapped,         \* per run: another run published since then
    gpc,                \* position of the get_results request
    gread,              \* what the request has read of current_analysis
    rlog                \* per run: the progress values it has published and
                        \* the stages it has completed, in program order

pipeVars == <<processing_status, current_analysis, nextRun, rpc, rquery, rdocs,
              rgen, rfault, snapAtStart, overlapped, gpc, gread, rlog>>

\* ---- the relevance computation of ask_question (services/rag_bot.py)
VARIABLES
    search_distances,   \* result[1] of the entries of search_results
    relevance_scores    \* the list relevance_scores (<<>>: not computed yet)

relVars == <<search_distances, relevance_scores>>

\* ---- the RAG bot's state (services/rag_bot.py)
VARIABLES
    conversation_history,  \* self.conversation_history
    rag_lock,              \* self.lock of the RAGBot: Free or its holder
    ask,                   \* per asking thread: its ask_question call
    asks,                  \* how many ask_question calls have been made
    conv_clears,           \* how many clear_conversation calls
    history_copy,          \* what get_conversation_history returned last
    all_docs,              \* all_docs of the last get_suggested_questions
    suggestions            \* what it returned (<<>>: not called yet)

ragVars == <<conversation_history, rag_lock, ask, asks, conv_clears,
             history_copy, all_docs, suggestions>>

\* What the steps of one component leave alone.
outsideFetch == <<storeVars, pipeVars, relVars, ragVars>>
outsideStore == <<fetchVars, pipeVars, relVars, ragVars>>
outsidePipe == <<fetchVars, relVars, ragVars>>
outsideRel == <<fetchVars, storeVars, pipeVars, ragVars>>
outsideRag == <<fetchVars, pipeVars, relVars>>

\* The futures in the order the orchestrator asks for their results.
CollectOrder == <<"youtube", "news", "twitter">>

SourceKinds == {"youtube", "news", "twitter"}

\* A live document built from item i of a provider payload.
LiveDoc(kind, q, i) ==
    [source_type |-> kind, query |-> q, i |-> i, placeholder |-> FALSE]

PlaceholderDoc(kind, q, i) ==
    [source_type |-> kind, query |-> q, i |-> i, placeholder |-> TRUE]

get_youtube_placeholder_data_none(q) ==
    <<>>

get_youtube_placeholder_data(q) ==
    [i \in 1..YoutubePlaceholders |-> PlaceholderDoc("youtube", q, i)]

get_news_placeholder_data(q) ==
    [i \in 1..NewsPlaceholders |-> PlaceholderDoc("news", q, i)]

get_twitter_placeholder_data(q) ==
    [i \in 1..TwitterPlaceholders |-> PlaceholderDoc("twitter", q, i)]

\* What a provider call can do: answer with n items, fail in the HTTP call
\* (network, auth, rate limit), or answer with a payload the parsing loop
\* chokes on (a missing key, a bad date).
ProviderOutcomes(cap) ==
    [kind : {"ok"}, n : 0..cap] \cup
    { [kind |-> "http_error", n |-> 0], [kind |-> "bad_payload", n |-> 0] }

Failed(o) == o.kind # "ok"

Returned(docs) == [raised |-> FALSE, docs |-> docs]
Raised == [raised |-> TRUE, docs |-> <<>>]

\* fetch_youtube_videos: the whole body is inside try/except Exception.
fetch_youtube_videos(q, o) ==
    IF o.kind = "ok"
    THEN Returned([i \in 1..o.n |-> LiveDoc("youtube", q, i)])
    ELSE Returned(get_youtube_placeholder_data(q))

\* The parsing loop outside the try block.
fetch_news_articles_unguarded(q, o) ==
    CASE o.kind = "ok" -> Returned([i \in 1..o.n |-> LiveDoc("news", q, i)])
      [] o.kind = "http_error" -> Returned(get_news_placeholder_data(q))
      [] o.kind = "bad_payload" -> Raised

fetch_news_articles(q, o) ==
    IF o.kind = "ok"
    THEN Returned([i \in 1..o.n |-> LiveDoc("news", q, i)])
    ELSE Returned(get_news_placeholder_data(q))

fetch_twitter_posts(q, o, client) ==
    IF client = None
    THEN Returned(get_twitter_placeholder_data(q))
    ELSE IF o.kind = "ok"
         THEN Returned([i \in 1..o.n |-> LiveDoc("twitter", q, i)])
         ELSE Returned(get_twitter_placeholder_data(q))

ItemCap(kind) ==
    CASE kind = "youtube" -> YoutubeMaxResults
      [] kind = "news" -> NewsPageSize
      [] kind = "twitter" -> TwitterLimit

Fetcher(kind, q, o, client) ==
    CASE kind = "youtube" -> fetch_youtube_videos(q, o)
      [] kind = "news" -> fetch_news_articles(q, o)
      [] kind = "twitter" -> fetch_twitter_posts(q, o, client)

NoOutcome == [kind |-> "none", n |-> 0]

FetchInit ==
    /\ twitter_client \in {"client", None}
    /\ fpc = "idle"
    /\ fquery = 1
    /\ cur = 0
    /\ handled = {}
    /\ waited = 0
    /\ fstate = [s \in SourceKinds |-> "idle"]
    /\ foutcome = [s \in SourceKinds |-> NoOutcome]
    /\ fres = [s \in SourceKinds |-> Returned(<<>>)]
    /\ results = <<>>
    /\ timedOut = {}
    /\ completion = <<>>

\* fetch_all_sources, lines 28-34: results = [], the executor is created and
\* the three fetchers are submitted; with three workers all three start.
fetch_all_sources_submit(q) ==
    /\ fpc \in {"idle", "returned"}
    /\ fpc' = "collect"
    /\ fquery' = q
    /\ cur' = 0
    /\ handled' = {}
    /\ waited' = 0
    /\ fstate' = [s \in SourceKinds |-> "running"]
    /\ foutcome' = [s \in SourceKinds |-> NoOutcome]
    /\ fres' = [s \in SourceKinds |-> Returned(<<>>)]
    /\ results' = <<>>
    /\ timedOut' = {}
    /\ completion' = <<>>
    /\ UNCHANGED twitter_client
    /\ UNCHANGED outsideFetch

\* A worker thread finishes its fetcher call, after any amount of time.
fetcher_finishes(s) ==
    /\ fstate[s] = "running"
    /\ \E o \in ProviderOutcomes(ItemCap(s)) :
          /\ foutcome' = [foutcome EXCEPT ![s] = o]
          /\ fres' = [fres EXCEPT ![s] = Fetcher(s, fquery, o, twitter_client)]
    /\ fstate' = [fstate EXCEPT ![s] = "done"]
    /\ completion' = Append(completion, s)
    /\ UNCHANGED <<twitter_client, fpc, fquery, cur, handled, waited, results,
                   timedOut>>
    /\ UNCHANGED outsideFetch

\* The future whose result() the orchestrator calls next: the statements of
\* lines 37-50 name them in registration order.
WaitTargetAsCompleted(n, done) ==
    LET ready == {s \in SourceKinds \ done : fstate[s] = "done"}
        first == CHOOSE i \in 1..Len(CollectOrder) :
                    /\ CollectOrder[i] \notin done
                    /\ \A j \in 1..(i - 1) : CollectOrder[j] \in done
    IN  IF ready # {} THEN ready ELSE {CollectOrder[first]}

WaitTarget(n, done) ==
    {CollectOrder[n + 1]}

\* One time unit passes while the orchestrator blocks in result(timeout=30).
tick ==
    /\ fpc = "collect"
    /\ \E s \in WaitTarget(cur, handled) : fstate[s] = "running"
    /\ waited < Timeout
    /\ waited' = waited + 1
    /\ UNCHANGED <<twitter_client, fpc, fquery, cur, handled, fstate, foutcome,
                   fres, results, timedOut, completion>>
    /\ UNCHANGED outsideFetch

Advance(s) ==
    /\ cur' = cur + 1
    /\ handled' = handled \cup {s}
    /\ waited' = 0
    /\ fpc' = IF cur + 1 = Len(CollectOrder) THEN "shutdown" ELSE "collect"

\* result() returns the fetcher's list (or re-raises what the fetcher raised,
\* which the except clause swallows): results.extend(...)
collect_result(s) ==
    /\ fpc = "collect"
    /\ s \in WaitTarget(cur, handled)
    /\ fstate[s] = "done"
    /\ results' = IF fres[s].raised THEN results ELSE results \o fres[s].docs
    /\ Advance(s)
    /\ UNCHANGED <<twitter_client, fquery, fstate, foutcome, fres, timedOut,
                   completion>>
    /\ UNCHANGED outsideFetch

\* result(timeout=30) raises TimeoutError; the except clause prints and the
\* orchestrator goes on to the next future.
collect_timeout(s) ==
    /\ fpc = "collect"
    /\ s \in WaitTarget(cur, handled)
    /\ fstate[s] = "running"
    /\ waited = Timeout
    /\ timedOut' = timedOut \cup {s}
    /\ Advance(s)
    /\ UNCHANGED <<twitter_client, fquery, fstate, foutcome, fres, results,
                   completion>>
    /\ UNCHANGED outsideFetch

\* Leaving the with block: ThreadPoolExecutor.__exit__ is shutdown(wait=True),
\* which joins the workers; only then does return results run.
fetch_all_sources_return ==
    /\ fpc = "shutdown"
    /\ \A s \in SourceKinds : fstate[s] = "done"
    /\ fpc' = "returned"
    /\ UNCHANGED <<twitter_client, fquery, cur, handled, waited, fstate,
                   foutcome, fres, results, timedOut, completion>>
    /\ UNCHANGED outsideFetch

FetchNext ==
    \/ \E q \in Queries : fetch_all_sources_submit(q)
    \/ \E s \in SourceKinds : fetcher_finishes(s)
    \/ tick
    \/ \E s \in SourceKinds : collect_result(s)
    \/ \E s \in SourceKinds : collect_timeout(s)
    \/ fetch_all_sources_return

\* ============================================================ vector store
\* Document objects available to the callers of the store.
NumDocs == 2
\* Longest documents argument passed to add_documents.
MaxBatch == 2
\* Largest k passed to search.
MaxK == 2
\* Callers add only while the store holds no more than this afterwards.
MaxStored == MaxBatch
\* Number of pipeline runs app.search starts.
MaxRuns == 2

\* VectorStore(dimension: int = 384), constructed without argument
dimension == 384
\* Length of the vectors of sentence-transformers/all-MiniLM-L6-v2
EncoderDimension == 384

\* ThreadPoolExecutor(max_workers=4)
EmbedWorkers == 4
\* chunk_size = max(1, len(texts) // 4)
ChunkDivisor == 4

Clients == {<<"client", 1>>, <<"client", 2>>}
\* The clients that also search (searches only read: one is enough to meet
\* every interleaving with the writers).
Searchers == {<<"client", 1>>}
Runs == 1..MaxRuns
\* The thread process_search_async of run r executes on.
RunThread(r) == <<"run", r>>
\* The request threads calling ask_question, and the one calling the other
\* operations of the RAG bot and clearing the store.
Askers == {<<"asker", 1>>, <<"asker", 2>>}
Operator == <<"operator", 0>>
Threads == Clients \cup {RunThread(r) : r \in Runs} \cup Askers \cup {Operator}

\* The document objects: 1..NumDocs belong to the store's direct callers,
\* the rest are the objects the fetch of run r creates.
RunDoc(r, j) == NumDocs + (r - 1) * MaxBatch + j
Docs == 1..(NumDocs + MaxRuns * MaxBatch)

\* doc.title and doc.content, as numbers standing for the strings.
Title(d) == d
Content(d) == 2 * d

\* f"{doc.title} {doc.content}"
TextOf(d) == <<Title(d), Content(d)>>

RECURSIVE SumSeq(_)
SumSeq(x) == IF x = <<>> THEN 0 ELSE Head(x) + SumSeq(Tail(x))

\* self.encoder.encode: a deterministic function of the text alone. A vector
\* is its length and its place on a line (the other coordinates are 0).
encode(text) == [dim |-> EncoderDimension, at |-> SumSeq(text)]

\* doc.embedding = None
NoEmbedding == [dim |-> 0, at |-> 0]

\* IndexFlatL2 reports squared Euclidean distances.
Dist(a, b) == (a.at - b.at) * (a.at - b.at)

QueryTexts == {<<2>>, <<7>>}

Free == <<"free", 0>>

IdleFrame ==
    [op |-> "none", pc |-> "idle", docs |-> <<>>, done |-> {},
     all_embeddings |-> <<>>, query |-> <<>>, k |-> 0, hits |-> <<>>,
     i |-> 0, out |-> <<>>, raised |-> FALSE, count |-> 0,
     unlocked |-> FALSE, query_embedding |-> NoEmbedding]

\* (unlocked: the call has read self.documents or self.index at a moment it
\* did not hold self.lock; query_embedding: the local of search.)
\* A thread is between calls when its frame is idle or holds the result of
\* its last call.
Idle(t) == call[t].pc \in {"idle", "ret"}

AddFrame(docs) == [IdleFrame EXCEPT !.op = "add", !.docs = docs]
SearchFrame(q, k) == [IdleFrame EXCEPT !.op = "search", !.query = q, !.k = k]
ClearFrame == [IdleFrame EXCEPT !.op = "clear"]

StoreInit ==
    /\ documents = <<>>
    /\ index = <<>>
    /\ embedding = [d \in Docs |-> NoEmbedding]
    /\ lock = Free
    /\ call = [t \in Threads |-> IdleFrame]
    /\ passed = 0

Max(a, b) == IF a >= b THEN a ELSE b
Min(a, b) == IF a <= b THEN a ELSE b

\* ---- add_documents
ChunkSize(n) == Max(1, n \div ChunkDivisor)
NumChunks(n) == (n + ChunkSize(n) - 1) \div ChunkSize(n)

\* chunks[c-1] = texts[i:i + chunk_size], as positions of the documents list
ChunkPositions(n, c) ==
    [j \in 1..(Min(c * ChunkSize(n), n) - (c - 1) * ChunkSize(n))
        |-> (c - 1) * ChunkSize(n) + j]

\* encoder.encode(chunk): one vector per text of the chunk, in order
EncodeChunk(docs, c) ==
    LET pos == ChunkPositions(Len(docs), c)
    IN  [j \in DOMAIN pos |-> encode(TextOf(docs[pos[j]]))]

\* The chunks a worker has picked up: the executor starts them in
\* submission order, four at a time.
Started(n, done) == 1..Min(NumChunks(n), EmbedWorkers + Cardinality(done))

\* as_completed yields the futures in the order they finish: any started,
\* unfinished chunk may be next.
NextYielded(n, done) ==
    Started(n, done) \ done

\* The lock taken on entry, before the embeddings are computed.
add_documents_begin_locked(t, docs) ==
    /\ Idle(t)
    /\ lock = Free
    /\ lock' = IF docs = <<>> THEN Free ELSE t
    /\ call' = [call EXCEPT ![t] =
                   [AddFrame(docs) EXCEPT !.pc =
                       IF docs = <<>> THEN "ret" ELSE "add_encode"]]
    /\ UNCHANGED <<documents, index, embedding, passed>>
    /\ UNCHANGED outsideStore

\* lines 20-35: the empty-list return, or the texts and the submitted chunks
add_documents_begin(t, docs) ==
    /\ Idle(t)
    /\ call' = [call EXCEPT ![t] =
                   [AddFrame(docs) EXCEPT !.pc =
                       IF docs = <<>> THEN "ret" ELSE "add_encode"]]
    /\ UNCHANGED <<documents, index, embedding, lock, passed>>
    /\ UNCHANGED outsideStore

\* lines 39-41: the next future as_completed yields; all_embeddings.extend.
\* After the last one the executor shuts down and line 44 makes the array.
add_chunk_completes(t, c) ==
    /\ call[t].pc = "add_encode"
    /\ c \in NextYielded(Len(call[t].docs), call[t].done)
    /\ LET done == call[t].done \cup {c}
       IN call' = [call EXCEPT
              ![t].done = done,
              ![t].all_embeddings = @ \o EncodeChunk(call[t].docs, c),
              ![t].pc = IF Cardinality(done) = NumChunks(Len(call[t].docs))
                        THEN "add_lock" ELSE "add_encode"]
    /\ UNCHANGED <<documents, index, embedding, lock, passed>>
    /\ UNCHANGED outsideStore

\* line 40: future.result() re-raises what encoder.encode raised
add_encode_raises(t) ==
    /\ call[t].pc = "add_encode"
    /\ call' = [call EXCEPT ![t].pc = "ret", ![t].raised = TRUE]
    /\ UNCHANGED <<documents, index, embedding, lock, passed>>
    /\ UNCHANGED outsideStore

\* lines 47-49: the lock is taken and the vectors are added to the index;
\* index.add rejects vectors whose length is not the index's (the exception
\* leaves the with block, which gives the lock back)
add_index(t) ==
    /\ call[t].pc = "add_lock"
    /\ lock = Free
    /\ IF \A j \in DOMAIN call[t].all_embeddings :
              call[t].all_embeddings[j].dim = dimension
       THEN /\ lock' = t
            /\ index' = index \o call[t].all_embeddings
            /\ call' = [call EXCEPT ![t].pc = "add_store", ![t].i = 1]
       ELSE /\ call' = [call EXCEPT ![t].pc = "ret", ![t].raised = TRUE]
            /\ UNCHANGED <<lock, index>>
    /\ UNCHANGED <<documents, embedding, passed>>
    /\ UNCHANGED outsideStore

\* The zip loop leaving out a document the list already holds.
add_store_doc_once(t) ==
    /\ call[t].pc = "add_store"
    /\ lock = t
    /\ LET i == call[t].i
           doc == call[t].docs[i]
           last == i = Min(Len(call[t].docs), Len(call[t].all_embeddings))
       IN /\ embedding' = [embedding EXCEPT ![doc] = call[t].all_embeddings[i]]
          /\ documents' = IF \E p \in DOMAIN documents : documents[p] = doc
                          THEN documents ELSE Append(documents, doc)
          /\ lock' = IF last THEN Free ELSE t
          /\ call' = [call EXCEPT ![t].i = i + 1,
                                  ![t].pc = IF last THEN "ret" ELSE "add_store"]
          /\ passed' = IF last THEN passed + Len(call[t].docs) ELSE passed
    /\ UNCHANGED index
    /\ UNCHANGED outsideStore

\* lines 52-54: one turn of the zip loop; the last one leaves the with block
add_store_doc(t) ==
    /\ call[t].pc = "add_store"
    /\ lock = t
    /\ LET i == call[t].i
           doc == call[t].docs[i]
           last == i = Min(Len(call[t].docs), Len(call[t].all_embeddings))
       IN /\ embedding' = [embedding EXCEPT ![doc] = call[t].all_embeddings[i]]
          /\ documents' = Append(documents, doc)
          /\ lock' = IF last THEN Free ELSE t
          /\ call' = [call EXCEPT ![t].i = i + 1,
                                  ![t].pc = IF last THEN "ret" ELSE "add_store"]
          /\ passed' = IF last THEN passed + Len(call[t].docs) ELSE passed
    /\ UNCHANGED index
    /\ UNCHANGED outsideStore

\* ---- search
\* The vector not yet taken that was added first, whatever its distance.
NearestUnsorted(idx, qe, taken) ==
    CHOOSE p \in DOMAIN idx \ taken : \A p2 \in DOMAIN idx \ taken : p <= p2

\* The position of the nearest vector not yet taken; ties go to the lower
\* position.
Nearest(idx, qe, taken) ==
    CHOOSE p \in DOMAIN idx \ taken :
        \A p2 \in DOMAIN idx \ taken :
            \/ Dist(qe, idx[p]) < Dist(qe, idx[p2])
            \/ (Dist(qe, idx[p]) = Dist(qe, idx[p2]) /\ p <= p2)

RECURSIVE IndexSearchFrom(_, _, _, _)
IndexSearchFrom(idx, qe, n, taken) ==
    IF n = 0 \/ DOMAIN idx \ taken = {}
    THEN <<>>
    ELSE LET p == Nearest(idx, qe, taken)
         IN  <<[distance |-> Dist(qe, idx[p]), idx |-> p, doc |-> None]>>
                 \o IndexSearchFrom(idx, qe, n - 1, taken \cup {p})

\* self.index.search(query_embedding, n): the n nearest, best first, as
\* (distance, position) pairs; positions count from 1 here.
IndexSearch(idx, qe, n) == IndexSearchFrom(idx, qe, n, {})

\* The hits, each with the document standing at its position at the time of
\* the index query (kept for the record; the code keeps the position only).
WithDocs(hits, docs) ==
    [j \in DOMAIN hits |->
        [hits[j] EXCEPT !.doc = IF hits[j].idx \in DOMAIN docs
                                THEN docs[hits[j].idx] ELSE None]]

\* lines 58-62: the emptiness test reads self.documents without the lock;
\* then the query is encoded
search_begin(t, q, k) ==
    /\ Idle(t)
    /\ call' = [call EXCEPT ![t] =
                   [SearchFrame(q, k) EXCEPT
                       !.unlocked = TRUE,
                       !.query_embedding =
                           IF documents = <<>> THEN NoEmbedding ELSE encode(q),
                       !.pc = IF documents = <<>> THEN "ret" ELSE "search_lock"]]
    /\ UNCHANGED <<documents, index, embedding, lock, passed>>
    /\ UNCHANGED outsideStore

\* lines 65-66: the index query, inside the lock (count keeps the
\* len(self.documents) it was made with)
search_index(t) ==
    /\ call[t].pc = "search_lock"
    /\ lock = Free
    /\ Min(call[t].k, Len(documents)) > 0
    /\ call' = [call EXCEPT
          ![t].hits = WithDocs(IndexSearch(index, call[t].query_embedding,
                                           Min(call[t].k, Len(documents))),
                               documents),
          ![t].count = Len(documents),
          ![t].i = 1,
          ![t].pc = "search_loop"]
    /\ UNCHANGED <<documents, index, embedding, lock, passed>>
    /\ UNCHANGED outsideStore

\* lines 65-66 when the store was emptied after the test of line 58: FAISS
\* is asked for 0 neighbours, which it rejects or answers with no hits,
\* depending on its version
search_index_empty(t) ==
    /\ call[t].pc = "search_lock"
    /\ lock = Free
    /\ Min(call[t].k, Len(documents)) = 0
    /\ \/ call' = [call EXCEPT ![t].pc = "ret", ![t].raised = TRUE]
       \/ call' = [call EXCEPT ![t].pc = "ret"]
    /\ UNCHANGED <<documents, index, embedding, lock, passed>>
    /\ UNCHANGED outsideStore

\* line 71: if idx < len(self.documents), read without the lock
search_loop_test(t) ==
    /\ call[t].pc = "search_loop"
    /\ LET i == call[t].i
       IN call' = [call EXCEPT
              ![t].pc = IF i > Len(call[t].hits) THEN "ret"
                        ELSE IF call[t].hits[i].idx <= Len(documents)
                             THEN "search_read" ELSE "search_loop",
              ![t].unlocked = @ \/ i <= Len(call[t].hits),
              ![t].i = IF i <= Len(call[t].hits)
                          /\ call[t].hits[i].idx > Len(documents)
                       THEN i + 1 ELSE i]
    /\ UNCHANGED <<documents, index, embedding, lock, passed>>
    /\ UNCHANGED outsideStore

\* line 72: results.append((self.documents[idx], float(distance))), again
\* without the lock; IndexError if the list shrank since the test
search_loop_read(t) ==
    /\ call[t].pc = "search_read"
    /\ LET h == call[t].hits[call[t].i]
       IN call' = [call EXCEPT
              ![t].pc = IF h.idx <= Len(documents) THEN "search_loop" ELSE "ret",
              ![t].raised = ~(h.idx <= Len(documents)),
              ![t].unlocked = TRUE,
              ![t].i = @ + 1,
              ![t].out = IF h.idx <= Len(documents)
                         THEN Append(@, [doc |-> documents[h.idx],
                                         distance |-> h.distance,
                                         at |-> h.doc])
                         ELSE @]
    /\ UNCHANGED <<documents, index, embedding, lock, passed>>
    /\ UNCHANGED outsideStore

\* ---- clear
\* The new index assigned, and the lock given up before documents.clear().
clear_index_unlocked(t) ==
    /\ Idle(t)
    /\ lock = Free
    /\ lock' = Free
    /\ index' = <<>>
    /\ call' = [call EXCEPT ![t] = [ClearFrame EXCEPT !.pc = "clear_docs"]]
    /\ UNCHANGED <<documents, embedding, passed>>
    /\ UNCHANGED outsideStore

\* lines 83-84: the lock is taken and a new empty index replaces the old
clear_index(t) ==
    /\ Idle(t)
    /\ lock = Free
    /\ lock' = t
    /\ index' = <<>>
    /\ call' = [call EXCEPT ![t] = [ClearFrame EXCEPT !.pc = "clear_docs"]]
    /\ UNCHANGED <<documents, embedding, passed>>
    /\ UNCHANGED outsideStore

\* The with block ending with the list left as it was.
clear_docs_keeps_list(t) ==
    /\ call[t].pc = "clear_docs"
    /\ documents' = documents
    /\ passed' = 0
    /\ lock' = Free
    /\ call' = [call EXCEPT ![t].pc = "ret"]
    /\ UNCHANGED <<index, embedding>>
    /\ UNCHANGED outsideStore

\* line 85: self.documents.clear(), and the with block ends
clear_docs(t) ==
    /\ call[t].pc = "clear_docs"
    /\ documents' = <<>>
    /\ passed' = 0
    /\ lock' = Free
    /\ call' = [call EXCEPT ![t].pc = "ret"]
    /\ UNCHANGED <<index, embedding>>
    /\ UNCHANGED outsideStore

\* The steps of the VectorStore calls of thread t.
StoreStep(t) ==
    \/ \E c \in 1..MaxBatch : add_chunk_completes(t, c)
    \/ add_encode_raises(t)
    \/ add_index(t)
    \/ add_store_doc(t)
    \/ clear_docs(t)

SearchStep(t) ==
    \/ search_index(t)
    \/ search_index_empty(t)
    \/ search_loop_test(t)
    \/ search_loop_read(t)

\* ---- the store's direct callers
RECURSIVE SeqsUpTo(_, _)
SeqsUpTo(S, n) ==
    IF n = 0 THEN {<<>>}
    ELSE LET shorter == SeqsUpTo(S, n - 1)
         IN  shorter \cup
             {Append(x, e) : x \in {y \in shorter : Len(y) = n - 1}, e \in S}

Range(x) == {x[i] : i \in DOMAIN x}

\* The documents arguments: lists of distinct document objects.
Batches(S) == {b \in SeqsUpTo(S, MaxBatch) : Cardinality(Range(b)) = Len(b)}

\* A caller adds while the store is small (this keeps the model finite).
client_add_documents(t, docs) ==
    /\ Len(documents) + Len(docs) <= MaxStored
    /\ add_documents_begin(t, docs)

StoreNext ==
    \/ \E t \in Clients : \E docs \in Batches(1..NumDocs) :
          client_add_documents(t, docs)
    \/ \E t \in Searchers : \E q \in QueryTexts : \E k \in 1..MaxK :
          search_begin(t, q, k)
    \/ \E t \in Clients : clear_index(t)
    \/ \E t \in Clients : StoreStep(t)
    \/ \E t \in Searchers : SearchStep(t)

\* ============================================================ coordinator
\* ---- services/ai_analyzer.py
\* _generate_summary: the generator's text, or, when the call raises, the
\* except clause's self._generate_fallback_summary(query, context). The class
\* defines no such method: the attribute lookup raises AttributeError.
generate_summary(o) ==
    IF o = "ok" THEN [raised |-> FALSE, value |-> "generated"]
    ELSE [raised |-> TRUE, value |-> "AttributeError"]

\* _generate_insights: likewise, with self._generate_fallback_insights(query)
generate_insights(o) ==
    IF o = "ok" THEN [raised |-> FALSE, value |-> "generated"]
    ELSE [raised |-> TRUE, value |-> "AttributeError"]

\* generate_analysis: the summary, then the insights, then the SearchAnalysis.
\* os is the generator's behaviour for the summary, oi for the insights.
generate_analysis(os, oi) ==
    IF generate_summary(os).raised
    THEN [raised |-> TRUE, value |-> generate_summary(os).value,
          summary |-> os, insights |-> "not_called"]
    ELSE IF generate_insights(oi).raised
         THEN [raised |-> TRUE, value |-> generate_insights(oi).value,
               summary |-> os, insights |-> oi]
         ELSE [raised |-> FALSE, value |-> "SearchAnalysis",
               summary |-> os, insights |-> oi]

GeneratorOutcomes == {"ok", "fail"}

\* ---- app.py
Ready == [is_processing |-> FALSE, progress |-> 0, message |-> "Ready"]

SnapshotKeys ==
    {"analysis", "documents", "source_analyses", "sentiment_distribution",
     "timestamp"}

\* current_analysis = {}
NoAnalysis == [key \in SnapshotKeys |-> 0]

\* The dict of lines 100-106, every value computed by run r.
SnapshotOf(r) == [key \in SnapshotKeys |-> r]

\* f'Error: {str(e)}'
ErrorMessage(fault) == <<"Error: ", fault>>

NoGen == [summary |-> "not_called", insights |-> "not_called"]

\* The request's position: idle, about to read key n of ReadOrder, or
\* answered with 404 or 200.
At(where, n) == [at |-> where, n |-> n]

InFlight(r) == rpc[r] \notin {"unstarted", "done", "failed"}

\* Entries of a run's log: processing_status.update with a progress value,
\* and the return of the call that does a stage's work.
Published(n) == [kind |-> "publish", progress |-> n, stage |-> "-"]
Completed(stage) == [kind |-> "done", progress |-> 0, stage |-> stage]

PipeInit ==
    /\ processing_status = Ready
    /\ current_analysis = NoAnalysis
    /\ nextRun = 0
    /\ rpc = [r \in Runs |-> "unstarted"]
    /\ rquery = [r \in Runs |-> 0]
    /\ rdocs = [r \in Runs |-> <<>>]
    /\ rgen = [r \in Runs |-> NoGen]
    /\ rfault = [r \in Runs |-> "none"]
    /\ snapAtStart = [r \in Runs |-> NoAnalysis]
    /\ overlapped = [r \in Runs |-> FALSE]
    /\ gpc = At("idle", 0)
    /\ gread = NoAnalysis
    /\ rlog = [r \in Runs |-> <<>>]

\* search(), lines 46-61: the status is set to queued and the background
\* thread is started.
app_search(q) ==
    /\ nextRun < MaxRuns
    /\ nextRun' = nextRun + 1
    /\ processing_status' =
          [is_processing |-> TRUE, progress |-> 0,
           message |-> "Queued - starting processing..."]
    /\ rpc' = [rpc EXCEPT ![nextRun + 1] = "start"]
    /\ rquery' = [rquery EXCEPT ![nextRun + 1] = q]
    /\ snapAtStart' = [snapAtStart EXCEPT ![nextRun + 1] = current_analysis]
    /\ UNCHANGED <<current_analysis, rdocs, rgen, rfault, overlapped, gpc, gread,
                   rlog>>
    /\ UNCHANGED <<storeVars, outsidePipe>>

\* process_search_async, line 70
run_begin(r) ==
    /\ rpc[r] = "start"
    /\ processing_status' =
          [is_processing |-> TRUE, progress |-> 10,
           message |-> "Fetching data from sources..."]
    /\ rpc' = [rpc EXCEPT ![r] = "fetch"]
    /\ UNCHANGED <<current_analysis, nextRun, rquery, rdocs, rgen, rfault,
                   snapAtStart, overlapped, gpc, gread>>
    /\ rlog' = [rlog EXCEPT ![r] = @ \o <<Published(10)>>]
    /\ UNCHANGED <<storeVars, outsidePipe>>

\* lines 75-76: fetch_all_sources returns new document objects (any number,
\* none included); the status keys progress and message are updated.
run_fetch(r) ==
    /\ rpc[r] = "fetch"
    /\ \E n \in 0..MaxBatch : rdocs' = [rdocs EXCEPT ![r] = [j \in 1..n |-> RunDoc(r, j)]]
    /\ processing_status' =
          [processing_status EXCEPT !.progress = 40,
                                    !.message = "Processing and storing data..."]
    /\ rpc' = [rpc EXCEPT ![r] = "index"]
    /\ UNCHANGED <<current_analysis, nextRun, rquery, rgen, rfault,
                   snapAtStart, overlapped, gpc, gread>>
    /\ rlog' = [rlog EXCEPT ![r] = @ \o <<Completed("fetch"), Published(40)>>]
    /\ UNCHANGED <<storeVars, outsidePipe>>

\* line 81: vector_store.clear()
run_clear(r) ==
    /\ rpc[r] = "index"
    /\ call[RunThread(r)].op = "none"
    /\ clear_index(RunThread(r))

\* line 82: vector_store.add_documents(documents), once clear has returned
run_add(r) ==
    /\ rpc[r] = "index"
    /\ call[RunThread(r)].op = "clear"
    /\ call[RunThread(r)].pc = "ret"
    /\ add_documents_begin(RunThread(r), rdocs[r])

\* line 83, once add_documents has returned
run_indexed(r) ==
    /\ rpc[r] = "index"
    /\ call[RunThread(r)].op = "add"
    /\ call[RunThread(r)].pc = "ret"
    /\ ~call[RunThread(r)].raised
    /\ call' = [call EXCEPT ![RunThread(r)] = IdleFrame]
    /\ processing_status' =
          [processing_status EXCEPT !.progress = 60,
                                    !.message = "Analyzing sentiment..."]
    /\ rpc' = [rpc EXCEPT ![r] = "sentiment"]
    /\ UNCHANGED <<current_analysis, nextRun, rquery, rdocs, rgen, rfault,
                   snapAtStart, overlapped, gpc, gread>>
    /\ rlog' = [rlog EXCEPT ![r] = @ \o <<Completed("index"), Published(60)>>]
    /\ UNCHANGED <<documents, index, embedding, lock, passed>>
    /\ UNCHANGED outsidePipe

\* The exception of add_documents ending the thread with no handler run.
run_index_raised_unhandled(r) ==
    /\ rpc[r] = "index"
    /\ call[RunThread(r)].op = "add"
    /\ call[RunThread(r)].pc = "ret"
    /\ call[RunThread(r)].raised
    /\ call' = [call EXCEPT ![RunThread(r)] = IdleFrame]
    /\ rfault' = [rfault EXCEPT ![r] = "encoder"]
    /\ rpc' = [rpc EXCEPT ![r] = "failed"]
    /\ UNCHANGED <<processing_status, current_analysis, nextRun, rquery, rdocs,
                   rgen, snapAtStart, overlapped, gpc, gread, rlog>>
    /\ UNCHANGED <<documents, index, embedding, lock, passed>>
    /\ UNCHANGED outsidePipe

\* add_documents raised: control passes to the except clause of line 111
run_index_raised(r) ==
    /\ rpc[r] = "index"
    /\ call[RunThread(r)].op = "add"
    /\ call[RunThread(r)].pc = "ret"
    /\ call[RunThread(r)].raised
    /\ call' = [call EXCEPT ![RunThread(r)] = IdleFrame]
    /\ rfault' = [rfault EXCEPT ![r] = "encoder"]
    /\ rpc' = [rpc EXCEPT ![r] = "except"]
    /\ UNCHANGED <<processing_status, current_analysis, nextRun, rquery, rdocs,
                   rgen, snapAtStart, overlapped, gpc, gread, rlog>>
    /\ UNCHANGED <<documents, index, embedding, lock, passed>>
    /\ UNCHANGED outsidePipe

\* The sentiment stage publishing a progress value lower than the one before.
run_sentiment_regresses(r) ==
    /\ rpc[r] = "sentiment"
    /\ processing_status' =
          [processing_status EXCEPT !.progress = 50,
                                    !.message = "Generating AI insights..."]
    /\ rpc' = [rpc EXCEPT ![r] = "analysis"]
    /\ UNCHANGED <<current_analysis, nextRun, rquery, rdocs, rgen, rfault,
                   snapAtStart, overlapped, gpc, gread>>
    /\ rlog' = [rlog EXCEPT ![r] = @ \o <<Completed("sentiment"), Published(50)>>]
    /\ UNCHANGED <<storeVars, outsidePipe>>

\* lines 88-89: the sentiment analysis (no external call in it)
run_sentiment(r) ==
    /\ rpc[r] = "sentiment"
    /\ processing_status' =
          [processing_status EXCEPT !.progress = 80,
                                    !.message = "Generating AI insights..."]
    /\ rpc' = [rpc EXCEPT ![r] = "analysis"]
    /\ UNCHANGED <<current_analysis, nextRun, rquery, rdocs, rgen, rfault,
                   snapAtStart, overlapped, gpc, gread>>
    /\ rlog' = [rlog EXCEPT ![r] = @ \o <<Completed("sentiment"), Published(80)>>]
    /\ UNCHANGED <<storeVars, outsidePipe>>

\* lines 94-95: ai_analyzer.generate_analysis returns, or raises into the
\* except clause of line 111
run_analysis(r) ==
    /\ rpc[r] = "analysis"
    /\ \E os \in GeneratorOutcomes, oi \in GeneratorOutcomes :
          LET a == generate_analysis(os, oi)
          IN  /\ rgen' = [rgen EXCEPT ![r] =
                             [summary |-> a.summary, insights |-> a.insights]]
              /\ IF a.raised
                 THEN /\ rfault' = [rfault EXCEPT ![r] = a.value]
                      /\ rpc' = [rpc EXCEPT ![r] = "except"]
                      /\ UNCHANGED <<processing_status, rlog>>
                 ELSE /\ processing_status' =
                            [processing_status EXCEPT
                                !.progress = 90,
                                !.message = "Finalizing results..."]
                      /\ rpc' = [rpc EXCEPT ![r] = "publish"]
                      /\ rlog' = [rlog EXCEPT ![r] =
                            @ \o <<Completed("analysis"), Published(90)>>]
                      /\ UNCHANGED rfault
    /\ UNCHANGED <<current_analysis, nextRun, rquery, rdocs, snapAtStart,
                   overlapped, gpc, gread>>
    /\ UNCHANGED <<storeVars, outsidePipe>>

\* The status flipped to complete where the snapshot should be stored.
run_publish_flips_first(r) ==
    /\ rpc[r] = "publish"
    /\ processing_status' =
          [is_processing |-> FALSE, progress |-> 100,
           message |-> "Analysis complete"]
    /\ rpc' = [rpc EXCEPT ![r] = "complete"]
    /\ UNCHANGED <<current_analysis, nextRun, rquery, rdocs, rgen, rfault,
                   snapAtStart, overlapped, gpc, gread>>
    /\ rlog' = [rlog EXCEPT ![r] = @ \o <<Completed("store")>>]
    /\ UNCHANGED <<storeVars, outsidePipe>>

\* lines 100-106: current_analysis.update({...}), one dict.update call
run_publish(r) ==
    /\ rpc[r] = "publish"
    /\ current_analysis' = SnapshotOf(r)
    /\ overlapped' = [x \in Runs |-> overlapped[x] \/ (x # r /\ InFlight(x))]
    /\ rpc' = [rpc EXCEPT ![r] = "complete"]
    /\ UNCHANGED <<processing_status, nextRun, rquery, rdocs, rgen, rfault,
                   snapAtStart, gpc, gread>>
    /\ rlog' = [rlog EXCEPT ![r] = @ \o <<Completed("store")>>]
    /\ UNCHANGED <<storeVars, outsidePipe>>

\* line 107
run_complete(r) ==
    /\ rpc[r] = "complete"
    /\ processing_status' =
          [is_processing |-> FALSE, progress |-> 100,
           message |-> "Analysis complete"]
    /\ rpc' = [rpc EXCEPT ![r] = "done"]
    /\ UNCHANGED <<current_analysis, nextRun, rquery, rdocs, rgen, rfault,
                   snapAtStart, overlapped, gpc, gread>>
    /\ rlog' = [rlog EXCEPT ![r] = @ \o <<Published(100)>>]
    /\ UNCHANGED <<storeVars, outsidePipe>>

\* The handler resetting the results as well as the status.
run_error_resets(r) ==
    /\ rpc[r] = "except"
    /\ processing_status' =
          [is_processing |-> FALSE, progress |-> 0,
           message |-> ErrorMessage(rfault[r])]
    /\ current_analysis' = NoAnalysis
    /\ rpc' = [rpc EXCEPT ![r] = "failed"]
    /\ UNCHANGED <<nextRun, rquery, rdocs, rgen, rfault,
                   snapAtStart, overlapped, gpc, gread>>
    /\ rlog' = [rlog EXCEPT ![r] = @ \o <<Published(0)>>]
    /\ UNCHANGED <<storeVars, outsidePipe>>

\* lines 111-113: the except clause
run_error(r) ==
    /\ rpc[r] = "except"
    /\ processing_status' =
          [is_processing |-> FALSE, progress |-> 0,
           message |-> ErrorMessage(rfault[r])]
    /\ rpc' = [rpc EXCEPT ![r] = "failed"]
    /\ UNCHANGED <<current_analysis, nextRun, rquery, rdocs, rgen, rfault,
                   snapAtStart, overlapped, gpc, gread>>
    /\ rlog' = [rlog EXCEPT ![r] = @ \o <<Published(0)>>]
    /\ UNCHANGED <<storeVars, outsidePipe>>

\* The keys get_results reads, in the order it reads them (lines 144-154).
ReadOrder ==
    <<"analysis", "source_analyses", "sentiment_distribution", "documents",
      "timestamp">>

\* get_results, line 139: 404 when current_analysis is empty
get_results_begin ==
    /\ gpc.at \in {"idle", "404", "200"}
    /\ gpc' = IF current_analysis = NoAnalysis THEN At("404", 0) ELSE At("read", 1)
    /\ gread' = NoAnalysis
    /\ UNCHANGED <<processing_status, current_analysis, nextRun, rpc, rquery,
                   rdocs, rgen, rfault, snapAtStart, overlapped, rlog>>
    /\ UNCHANGED <<storeVars, outsidePipe>>

\* One subscript current_analysis[key] of lines 144-154.
get_results_read(n) ==
    /\ gpc = At("read", n)
    /\ gread' = [gread EXCEPT ![ReadOrder[n]] = current_analysis[ReadOrder[n]]]
    /\ gpc' = IF n = Len(ReadOrder) THEN At("200", 0) ELSE At("read", n + 1)
    /\ UNCHANGED <<processing_status, current_analysis, nextRun, rpc, rquery,
                   rdocs, rgen, rfault, snapAtStart, overlapped, rlog>>
    /\ UNCHANGED <<storeVars, outsidePipe>>

PipelineNext ==
    \/ \E q \in Queries : app_search(q)
    \/ \E r \in Runs : run_begin(r)
    \/ \E r \in Runs : run_fetch(r)
    \/ \E r \in Runs : run_clear(r)
    \/ \E r \in Runs : run_add(r)
    \/ \E r \in Runs : StoreStep(RunThread(r))
    \/ \E r \in Runs : run_indexed(r)
    \/ \E r \in Runs : run_index_raised(r)
    \/ \E r \in Runs : run_sentiment(r)
    \/ \E r \in Runs : run_analysis(r)
    \/ \E r \in Runs : run_publish(r)
    \/ \E r \in Runs : run_complete(r)
    \/ \E r \in Runs : run_error(r)
    \/ get_results_begin
    \/ \E n \in 1..Len(ReadOrder) : get_results_read(n)

\* ======================================================= relevance scores
\* Python floats are binary floating-point numbers: every arithmetic result
\* is rounded to the nearest number with Precision significant bits, ties to
\* the even one (Precision is 53 in the program). The distances are float32
\* values converted by float(distance): DistPrecision significant bits (24
\* in the program). Numbers are kept as fractions num/den in lowest terms,
\* den a power of two.
Precision == 5
DistPrecision == 2
\* The exponents of the distances run from -ExpRange to ExpRange.
ExpRange == 8

RECURSIVE Reduce(_, _)
Reduce(n, d) ==
    IF n = 0 THEN [num |-> 0, den |-> 1]
    ELSE IF d > 1 /\ n % 2 = 0 THEN Reduce(n \div 2, d \div 2)
    ELSE [num |-> n, den |-> d]

Zero == [num |-> 0, den |-> 1]
One == [num |-> 1, den |-> 1]

Less(a, b) == a.num * b.den < b.num * a.den

\* n/d rounded to the nearest integer, ties to even
RoundToEven(n, d) ==
    LET q == n \div d
        r == n % d
    IN  IF 2 * r > d \/ (2 * r = d /\ q % 2 = 1) THEN q + 1 ELSE q

\* n/d * 2^s with n/d brought into [2^(Precision-1), 2^Precision) and
\* rounded there
RECURSIVE RoundScaled(_, _, _)
RoundScaled(n, d, s) ==
    IF n >= d * 2^Precision THEN RoundScaled(n, 2 * d, s + 1)
    ELSE IF n < d * 2^(Precision - 1) THEN RoundScaled(2 * n, d, s - 1)
    ELSE [m |-> RoundToEven(n, d), s |-> s]

\* The float nearest to n/d (n >= 0, d > 0)
Round(n, d) ==
    IF n = 0 THEN Zero
    ELSE LET x == RoundScaled(n, d, 0)
         IN  IF x.s >= 0 THEN [num |-> x.m * 2^x.s, den |-> 1]
             ELSE Reduce(x.m, 2^(-x.s))

\* a + b and a / b on floats
FloatAdd(a, b) == Round(a.num * b.den + b.num * a.den, a.den * b.den)
FloatDiv(a, b) == Round(a.num * b.den, a.den * b.num)

\* The same quotient with the division result truncated to an integer.
relevance_floor(d) ==
    LET x == FloatAdd(One, d) IN [num |-> x.den \div x.num, den |-> 1]

\* 1.0 / (1.0 + result[1])
relevance(d) == FloatDiv(One, FloatAdd(One, d))

\* float(distance) of an integer-valued distance
FloatOf(n) == [num |-> n, den |-> 1]

\* The non-negative float32 values: 0 and m * 2^e with DistPrecision
\* significant bits.
Distances ==
    {Zero} \cup
    {Reduce(m * 2^(e + ExpRange), 2^(ExpRange + DistPrecision - 1)) :
        m \in 2^(DistPrecision - 1)..(2^DistPrecision - 1),
        e \in (-ExpRange)..ExpRange}

\* No relevance computation under way.
RelIdle == search_distances = <<Zero, Zero>> /\ relevance_scores = <<>>

\* A retrieval of two documents, with any two distances.
RelInit ==
    /\ search_distances \in Distances \X Distances
    /\ relevance_scores = <<>>

\* rag_bot.py line 28: the list comprehension over search_results
relevance_scores_computed ==
    /\ relevance_scores = <<>>
    /\ relevance_scores' =
          [j \in DOMAIN search_distances |-> relevance(search_distances[j])]
    /\ UNCHANGED search_distances
    /\ UNCHANGED outsideRel

RelevanceNext == relevance_scores_computed

\* ================================================================ RAG bot
\* ask_question calls made in all.
MaxAsks == 2
\* clear_conversation calls made in all.
MaxClears == 1
\* Documents of the store at the start.
MaxCorpus == 3

\* context_limit: int = 5
ContextLimit == 5
\* suggestions[:6]
SuggestionCap == 6

\* doc.source_type of the document objects
SourceTypeOf(d) ==
    CASE d % 3 = 1 -> "news"
      [] d % 3 = 2 -> "twitter"
      [] OTHER -> "youtube"

\* The questions asked.
Questions == QueryTexts

FallbackAnswer == "I don't have enough information to answer that question"
UnableAnswer == "Unable to process the question at the moment."

\* answer_followup_question: the generator's text, or the except clause's
\* fixed sentence
answer_followup_question(o) == IF o = "ok" THEN "generated" ELSE UnableAnswer

NoResult == [pending |-> TRUE]

IdleAsk ==
    [pc |-> "idle", question |-> <<>>, search_results |-> <<>>,
     scores |-> <<>>, answer |-> "", generator_called |-> FALSE,
     sources |-> <<>>, result |-> NoResult, appends |-> 0]

\* Between two ask_question calls.
AskIdle(t) == ask[t].pc \in {"idle", "returned", "raised"}

RagInit ==
    /\ conversation_history = <<>>
    /\ rag_lock = Free
    /\ ask = [t \in Askers |-> IdleAsk]
    /\ asks = 0
    /\ conv_clears = 0
    /\ history_copy = <<>>
    /\ all_docs = <<>>
    /\ suggestions = <<>>

\* The store after add_documents(corpus) on a new VectorStore, the chunks
\* having completed in submission order.
StoreLoaded(corpus) ==
    /\ documents = corpus
    /\ index = [p \in DOMAIN corpus |-> encode(TextOf(corpus[p]))]
    /\ embedding = [d \in Docs |->
                       IF d \in Range(corpus) THEN encode(TextOf(d))
                       ELSE NoEmbedding]
    /\ lock = Free
    /\ call = [t \in Threads |-> IdleFrame]
    /\ passed = Len(corpus)

\* The corpora: documents 1..MaxCorpus, any of them, in ascending order.
RECURSIVE Ascending(_, _)
Ascending(S, from) ==
    IF from > MaxCorpus THEN <<>>
    ELSE (IF from \in S THEN <<from>> ELSE <<>>) \o Ascending(S, from + 1)

Corpora == {Ascending(S, 1) : S \in SUBSET (1..MaxCorpus)}

\* The conversation lock taken on entry and kept through the retrieval.
ask_question_call_locked(t, q) ==
    /\ AskIdle(t)
    /\ asks < MaxAsks
    /\ rag_lock = Free
    /\ rag_lock' = t
    /\ asks' = asks + 1
    /\ ask' = [ask EXCEPT ![t] = [IdleAsk EXCEPT !.pc = "search",
                                                 !.question = q]]
    /\ UNCHANGED <<conversation_history, conv_clears, history_copy,
                   all_docs, suggestions>>
    /\ UNCHANGED <<storeVars, outsideRag>>

\* What the new query cycle puts into the store.
CycleBatches == {<<1>>, <<1, 3>>}

\* line 14: ask_question is entered
ask_question_call(t, q) ==
    /\ AskIdle(t)
    /\ asks < MaxAsks
    /\ asks' = asks + 1
    /\ ask' = [ask EXCEPT ![t] = [IdleAsk EXCEPT !.pc = "search",
                                                 !.question = q]]
    /\ UNCHANGED <<conversation_history, rag_lock, conv_clears, history_copy,
                   all_docs, suggestions>>
    /\ UNCHANGED <<storeVars, outsideRag>>

\* line 17: self.vector_store.search(question, k=context_limit) is called
ask_search(t) ==
    /\ ask[t].pc = "search"
    /\ call[t].op = "none"
    /\ search_begin(t, ask[t].question, ContextLimit)

\* search raised (lines 66, 72): ask_question has no handler
ask_search_raised(t) ==
    /\ ask[t].pc = "search"
    /\ call[t].op = "search" /\ call[t].pc = "ret" /\ call[t].raised
    /\ call' = [call EXCEPT ![t] = IdleFrame]
    /\ ask' = [ask EXCEPT ![t].pc = "raised"]
    /\ UNCHANGED <<conversation_history, rag_lock, asks, conv_clears,
                   history_copy, all_docs, suggestions>>
    /\ UNCHANGED <<documents, index, embedding, lock, passed>>
    /\ UNCHANGED outsideRag

\* What search returned, as (document, distance) pairs.
SearchResults(out) ==
    [j \in DOMAIN out |-> [doc |-> out[j].doc, distance |-> out[j].distance]]

\* The generator asked for an answer although nothing was retrieved.
ask_nothing_found_generates(t) ==
    /\ ask[t].pc = "search"
    /\ call[t].op = "search" /\ call[t].pc = "ret" /\ ~call[t].raised
    /\ call[t].out = <<>>
    /\ call' = [call EXCEPT ![t] = IdleFrame]
    /\ ask' = [ask EXCEPT
          ![t].pc = "returned",
          ![t].generator_called = TRUE,
          ![t].result = [answer |-> answer_followup_question("ok"),
                         sources |-> <<>>, confidence |-> Zero]]
    /\ UNCHANGED <<conversation_history, rag_lock, asks, conv_clears,
                   history_copy, all_docs, suggestions>>
    /\ UNCHANGED <<documents, index, embedding, lock, passed>>
    /\ UNCHANGED outsideRag

\* The fallback answer recorded as a turn of the conversation.
ask_nothing_found_appends(t) ==
    /\ ask[t].pc = "search"
    /\ call[t].op = "search" /\ call[t].pc = "ret" /\ ~call[t].raised
    /\ call[t].out = <<>>
    /\ call' = [call EXCEPT ![t] = IdleFrame]
    /\ conversation_history' =
          Append(conversation_history,
                 [question |-> ask[t].question, answer |-> FallbackAnswer,
                  timestamp |-> t])
    /\ ask' = [ask EXCEPT
          ![t].pc = "returned",
          ![t].appends = @ + 1,
          ![t].result = [answer |-> FallbackAnswer, sources |-> <<>>,
                         confidence |-> Zero]]
    /\ UNCHANGED <<rag_lock, asks, conv_clears, history_copy, all_docs,
                   suggestions>>
    /\ UNCHANGED <<documents, index, embedding, lock, passed>>
    /\ UNCHANGED outsideRag

\* lines 19-24: nothing retrieved
ask_nothing_found(t) ==
    /\ ask[t].pc = "search"
    /\ call[t].op = "search" /\ call[t].pc = "ret" /\ ~call[t].raised
    /\ call[t].out = <<>>
    /\ call' = [call EXCEPT ![t] = IdleFrame]
    /\ ask' = [ask EXCEPT
          ![t].pc = "returned",
          ![t].result = [answer |-> FallbackAnswer, sources |-> <<>>,
                         confidence |-> Zero]]
    /\ UNCHANGED <<conversation_history, rag_lock, asks, conv_clears,
                   history_copy, all_docs, suggestions>>
    /\ UNCHANGED <<documents, index, embedding, lock, passed>>
    /\ UNCHANGED outsideRag

\* lines 27-28: relevant_docs and relevance_scores
ask_scores(t) ==
    /\ ask[t].pc = "search"
    /\ call[t].op = "search" /\ call[t].pc = "ret" /\ ~call[t].raised
    /\ call[t].out # <<>>
    /\ call' = [call EXCEPT ![t] = IdleFrame]
    /\ ask' = [ask EXCEPT
          ![t].pc = "answer",
          ![t].search_results = SearchResults(call[t].out),
          ![t].scores = [j \in DOMAIN call[t].out |->
                            relevance(FloatOf(call[t].out[j].distance))]]
    /\ UNCHANGED <<conversation_history, rag_lock, asks, conv_clears,
                   history_copy, all_docs, suggestions>>
    /\ UNCHANGED <<documents, index, embedding, lock, passed>>
    /\ UNCHANGED outsideRag

\* lines 34-42: one citation per retrieved document
Sources(search_results, scores) ==
    [j \in DOMAIN search_results |->
        [title |-> Title(search_results[j].doc),
         source_type |-> SourceTypeOf(search_results[j].doc),
         relevance_score |-> scores[j]]]

\* sum(relevance_scores), added up from the left
RECURSIVE FloatSum(_)
FloatSum(x) ==
    IF x = <<>> THEN Zero
    ELSE FloatAdd(FloatSum(SubSeq(x, 1, Len(x) - 1)), x[Len(x)])

\* The best score reported as the confidence.
ConfidenceOfBest(scores) ==
    IF scores = <<>> THEN Zero ELSE scores[1]

\* lines 45 and 58: the mean of the scores, capped at 1.0
Confidence(scores) ==
    LET avg == IF scores = <<>> THEN Zero
               ELSE FloatDiv(FloatSum(scores), FloatOf(Len(scores)))
    IN  IF Less(One, avg) THEN One ELSE avg

\* lines 31-45: the answer generator is called (o: what it does), the
\* citations are built
ask_answer(t, o) ==
    /\ ask[t].pc = "answer"
    /\ ask' = [ask EXCEPT
          ![t].pc = "lock",
          ![t].generator_called = TRUE,
          ![t].answer = answer_followup_question(o),
          ![t].sources = Sources(ask[t].search_results, ask[t].scores)]
    /\ UNCHANGED <<conversation_history, rag_lock, asks, conv_clears,
                   history_copy, all_docs, suggestions>>
    /\ UNCHANGED <<storeVars, outsideRag>>

\* line 48: with self.lock
ask_lock(t) ==
    /\ ask[t].pc = "lock"
    /\ rag_lock = Free
    /\ rag_lock' = t
    /\ ask' = [ask EXCEPT ![t].pc = "append"]
    /\ UNCHANGED <<conversation_history, asks, conv_clears, history_copy,
                   all_docs, suggestions>>
    /\ UNCHANGED <<storeVars, outsideRag>>

\* The turn of lines 49-53; the timestamp is the thread's ident.
Turn(t) ==
    [question |-> ask[t].question, answer |-> ask[t].answer, timestamp |-> t]

\* The turn put in place of the history instead of at its end.
ask_append_overwrites(t) ==
    /\ ask[t].pc = "append"
    /\ rag_lock = t
    /\ conversation_history' = <<Turn(t)>>
    /\ rag_lock' = Free
    /\ ask' = [ask EXCEPT
          ![t].pc = "returned",
          ![t].appends = @ + 1,
          ![t].result = [answer |-> ask[t].answer,
                         sources |-> ask[t].sources,
                         confidence |-> Confidence(ask[t].scores),
                         total_sources_found |-> Len(ask[t].sources)]]
    /\ UNCHANGED <<asks, conv_clears, history_copy, all_docs, suggestions>>
    /\ UNCHANGED <<storeVars, outsideRag>>

\* lines 49-60: the turn is appended, the lock given back, the result built
ask_append(t) ==
    /\ ask[t].pc = "append"
    /\ rag_lock = t
    /\ conversation_history' = Append(conversation_history, Turn(t))
    /\ rag_lock' = Free
    /\ ask' = [ask EXCEPT
          ![t].pc = "returned",
          ![t].appends = @ + 1,
          ![t].result = [answer |-> ask[t].answer,
                         sources |-> ask[t].sources,
                         confidence |-> Confidence(ask[t].scores),
                         total_sources_found |-> Len(ask[t].sources)]]
    /\ UNCHANGED <<asks, conv_clears, history_copy, all_docs, suggestions>>
    /\ UNCHANGED <<storeVars, outsideRag>>

\* get_conversation_history, lines 64-65: the copy made inside the lock
get_conversation_history ==
    /\ rag_lock = Free
    /\ history_copy' = conversation_history
    /\ UNCHANGED <<conversation_history, rag_lock, ask, asks, conv_clears,
                   all_docs, suggestions>>
    /\ UNCHANGED <<storeVars, outsideRag>>

\* clear_conversation, lines 69-70
clear_conversation ==
    /\ conv_clears < MaxClears
    /\ rag_lock = Free
    /\ conversation_history' = <<>>
    /\ conv_clears' = conv_clears + 1
    /\ UNCHANGED <<rag_lock, ask, asks, history_copy, all_docs, suggestions>>
    /\ UNCHANGED <<storeVars, outsideRag>>

\* A suggested question: the source kind it is about ("general" for the
\* analytical ones) and which of that kind's templates it is.
Question(about, n) == [about |-> about, n |-> n]

\* The analytical questions put before the contextual ones.
SuggestedGeneralFirst(docs) ==
    LET source_types == {SourceTypeOf(docs[p]) : p \in DOMAIN docs}
        For(kind) == IF kind \in source_types
                     THEN <<Question(kind, 1), Question(kind, 2)>> ELSE <<>>
        all == <<Question("general", 1), Question("general", 2),
                 Question("general", 3)>>
               \o For("news") \o For("twitter") \o For("youtube")
    IN  SubSeq(all, 1, Min(SuggestionCap, Len(all)))

\* lines 76-100: the list built from the source types of all_docs, cut to
\* its first six entries
Suggested(docs) ==
    LET source_types == {SourceTypeOf(docs[p]) : p \in DOMAIN docs}
        For(kind) == IF kind \in source_types
                     THEN <<Question(kind, 1), Question(kind, 2)>> ELSE <<>>
        all == For("news") \o For("twitter") \o For("youtube")
               \o <<Question("general", 1), Question("general", 2),
                    Question("general", 3)>>
    IN  SubSeq(all, 1, Min(SuggestionCap, Len(all)))

\* get_suggested_questions: get_all_documents copies the list inside the
\* store's lock (vector_store.py lines 78-79), the rest is local
get_suggested_questions ==
    /\ lock = Free
    /\ all_docs' = documents
    /\ suggestions' = Suggested(documents)
    /\ UNCHANGED <<conversation_history, rag_lock, ask, asks, conv_clears,
                   history_copy>>
    /\ UNCHANGED <<storeVars, outsideRag>>

\* The store is cleared while questions are asked (a new query cycle).
operator_clear ==
    /\ call[Operator].op = "none"
    /\ clear_index(Operator)

RagNext ==
    \/ \E t \in Askers : \E q \in Questions : ask_question_call(t, q)
    \/ \E t \in Askers : ask_search(t)
    \/ \E t \in Askers : SearchStep(t)
    \/ \E t \in Askers : ask_search_raised(t)
    \/ \E t \in Askers : ask_nothing_found(t)
    \/ \E t \in Askers : ask_scores(t)
    \/ \E t \in Askers : \E o \in GeneratorOutcomes : ask_answer(t, o)
    \/ \E t \in Askers : ask_lock(t)
    \/ \E t \in Askers : ask_append(t)
    \/ get_conversation_history
    \/ clear_conversation
    \/ get_suggested_questions
    \/ operator_clear
    \/ clear_docs(Operator)

\* The new cycle's documents are indexed once the store is cleared (app.py
\* lines 81-82), while questions are asked.
operator_add(docs) ==
    /\ call[Operator].op = "clear"
    /\ call[Operator].pc = "ret"
    /\ add_documents_begin(Operator, docs)

\* Questions asked during one whole query cycle of the store.
CycleNext ==
    \/ RagNext
    \/ \E docs \in CycleBatches : operator_add(docs)
    \/ \E c \in 1..MaxBatch : add_chunk_completes(Operator, c)
    \/ add_encode_raises(Operator)
    \/ add_index(Operator)
    \/ add_store_doc(Operator)

vars == <<fetchVars, storeVars, pipeVars, relVars, ragVars>>

\* No fetch_all_sources call is under way.
FetchIdle == FetchInit /\ twitter_client = "client"

InitFetch == FetchInit /\ StoreInit /\ PipeInit /\ RelIdle /\ RagInit

InitStore == FetchIdle /\ StoreInit /\ PipeInit /\ RelIdle /\ RagInit

InitPipeline == FetchIdle /\ StoreInit /\ PipeInit /\ RelIdle /\ RagInit

InitRelevance == FetchIdle /\ StoreInit /\ PipeInit /\ RelInit /\ RagInit

InitRag ==
    /\ FetchIdle /\ PipeInit /\ RelIdle /\ RagInit
    /\ \E corpus \in Corpora : StoreLoaded(corpus)

InitCycle ==
    /\ FetchIdle /\ PipeInit /\ RelIdle /\ RagInit
    /\ StoreLoaded(<<2>>)

FetchSpec == InitFetch /\ [][FetchNext]_vars

StoreSpec == InitStore /\ [][StoreNext]_vars

PipelineSpec == InitPipeline /\ [][PipelineNext]_vars

\* The steps of the background thread of run r (app.py lines 59-61 start it;
\* the interpreter keeps scheduling every thread that can run).
RunStep(r) ==
    \/ run_begin(r)
    \/ run_fetch(r)
    \/ run_clear(r)
    \/ run_add(r)
    \/ StoreStep(RunThread(r))
    \/ run_indexed(r)
    \/ run_index_raised(r)
    \/ run_sentiment(r)
    \/ run_analysis(r)
    \/ run_publish(r)
    \/ run_complete(r)
    \/ run_error(r)

\* Every stage call returns or raises, and every thread gets to run.
FairPipelineSpec == PipelineSpec /\ \A r \in Runs : WF_vars(RunStep(r))

RelevanceSpec == InitRelevance /\ [][RelevanceNext]_vars

RagSpec == InitRag /\ [][RagNext]_vars

CycleSpec == InitCycle /\ [][CycleNext]_vars

\* ================================================================= claims
\* ------------------------------------------------------------ FetchSpec

\* C3: when a fetcher did not finish within the 30-unit timeout, the
\* orchestrator stops waiting for it: once the three result() calls are over,
\* its return is not held up by the abandoned fetcher call.
C3_ReturnNotBlockedByAbandoned ==
    (fpc = "shutdown" /\ timedOut # {}) => ENABLED fetch_all_sources_return

AllProvidersFail == \A s \in SourceKinds : Failed(foutcome[s])

Contribution(s) ==
    IF s \in handled /\ s \notin timedOut /\ ~fres[s].raised
    THEN fres[s].docs ELSE <<>>

\* C9: at every point of a fetch_all_sources call, and so at its return, the
\* output is the concatenation of the per-source results in the order
\* youtube, news, twitter, whatever the order the fetchers finished in.
C9_RegistrationOrder ==
    fpc \in {"collect", "shutdown", "returned"} =>
        results = Contribution("youtube") \o Contribution("news")
                      \o Contribution("twitter")

C9_Witness ==
    /\ fpc = "returned"
    /\ completion = <<"twitter", "news", "youtube">>
    /\ timedOut = {}
    /\ \A s \in SourceKinds : Len(fres[s].docs) > 0
    /\ results[1].source_type = "youtube"
    /\ results[Len(results)].source_type = "twitter"

\* C10: no fetcher raises to its caller; when the provider call or the
\* parsing of its payload fails (or there is no twitter client) the fetcher
\* returns placeholder documents, at least one, and every document a fetcher
\* returns is tagged with that fetcher's own source kind.
C10_FetchersNeverRaise ==
    \A s \in SourceKinds :
        fstate[s] = "done" =>
            /\ ~fres[s].raised
            /\ \A i \in DOMAIN fres[s].docs : fres[s].docs[i].source_type = s
            /\ (Failed(foutcome[s]) \/ (s = "twitter" /\ twitter_client = None))
                  => /\ fres[s].docs # <<>>
                     /\ \A i \in DOMAIN fres[s].docs :
                            fres[s].docs[i].placeholder

C10_Witness ==
    /\ \A s \in SourceKinds : fstate[s] = "done"
    /\ foutcome["youtube"].kind = "http_error"
    /\ foutcome["news"].kind = "bad_payload"
    /\ foutcome["twitter"].kind = "bad_payload"
    /\ twitter_client = "client"

\* ------------------------------------------------------------ StoreSpec

AddReturned(t) == call[t].op = "add" /\ call[t].pc = "ret" /\ ~call[t].raised

\* C1: after add_documents returns, every document it added carries the
\* embedding computed from its own title and content, and the index entry at
\* the document's position in the document list is that same vector,
\* whatever the order in which the embedding chunks completed.
C1_OwnEmbeddingAfterAdd ==
    \A t \in Threads :
        AddReturned(t) =>
            \A i \in DOMAIN call[t].docs :
                LET d == call[t].docs[i]
                IN  /\ embedding[d] = encode(TextOf(d))
                    /\ lock = Free =>
                          \A p \in DOMAIN documents :
                              documents[p] = d => index[p] = embedding[d]

\* C5: every (document, distance) pair a search returns pairs the distance
\* with the document whose index entry produced it, also when add_documents
\* and clear run concurrently with the search.
C5_SearchPairsConsistent ==
    \A t \in Threads :
        \A j \in DOMAIN call[t].out : call[t].out[j].doc = call[t].out[j].at

GeneratorFailed(r) == rgen[r].summary = "fail" \/ rgen[r].insights = "fail"

\* C2: a failure of the external generator during the summary or the
\* insights is contained: generate_analysis returns with the fallback and
\* the run goes on to 'Analysis complete'; it never enters the except
\* clause and never publishes the Error status.
C2_GeneratorFailureContained ==
    \A r \in Runs :
        GeneratorFailed(r) =>
            /\ rpc[r] \in {"publish", "complete", "done"}
            /\ rfault[r] = "none"

IsErrorStatus(st, fault) ==
    /\ st.is_processing = FALSE
    /\ st.progress = 0
    /\ st.message = ErrorMessage(fault)

\* The step in which run r executes its except clause.
Faults(r) == rpc[r] = "except" /\ rpc'[r] = "failed"

C8_ReaderSeesOneSnapshot ==
    gpc.at = "200" =>
        \A k1 \in SnapshotKeys, k2 \in SnapshotKeys :
            (gread[k1] # 0 /\ gread[k2] # 0) => gread[k1] = gread[k2]

\* The log of a run that does not fault.
FullRunLog ==
    <<Published(10), Completed("fetch"), Published(40), Completed("index"),
      Published(60), Completed("sentiment"), Published(80),
      Completed("analysis"), Published(90), Completed("store"),
      Published(100)>>

IsPrefix(x, y) == Len(x) <= Len(y) /\ x = SubSeq(y, 1, Len(x))

\* C11: the progress values a run publishes are 10, 40, 60, 80, 90, 100 in
\* that order, each one after the work of the stage before it (fetch,
\* clear+index, sentiment, AI analysis, snapshot store) has returned and
\* with no stage left out; a run that ended without a fault has published
\* all six; a run that faults publishes 0 last, which ends it.
C11_ProgressInOrder ==
    \A r \in Runs :
        /\ rpc[r] # "failed" => IsPrefix(rlog[r], FullRunLog)
        /\ rpc[r] = "failed" =>
               /\ rlog[r][Len(rlog[r])] = Published(0)
               /\ IsPrefix(SubSeq(rlog[r], 1, Len(rlog[r]) - 1), FullRunLog)
        /\ rpc[r] = "done" => rlog[r] = FullRunLog

\* A run that went through every stage after an earlier run had finished.
C11_Witness ==
    /\ rpc[1] = "done"
    /\ rpc[2] = "done"
    /\ rlog[2] = FullRunLog
    /\ processing_status.progress = 100

\* C12: whenever no pipeline run is in progress, the vector store holds the
\* documents of one query cycle only (or none, before the first cycle and
\* after a cycle that fetched or indexed nothing): never documents of two
\* cycles together.
C12_OneCycleStored ==
    (\A r \in Runs : ~InFlight(r)) =>
        \/ documents = <<>>
        \/ \E r \in Runs : documents = rdocs[r]

\* C13: whenever the lock is free (get_all_documents can copy the list),
\* the list holds as many documents as were passed to the add_documents
\* calls that have returned since the last clear, and every stored document
\* has an embedding, of the length the store was configured with.
C13_CountAndEmbeddings ==
    lock = Free =>
        /\ Len(documents) = passed
        /\ \A p \in DOMAIN documents :
              /\ embedding[documents[p]] # NoEmbedding
              /\ embedding[documents[p]].dim = dimension

\* Two add_documents calls of one document each have returned, the same
\* document object in both, with no clear in between.
C13_Witness ==
    /\ lock = Free
    /\ AddReturned(<<"client", 1>>) /\ Len(call[<<"client", 1>>].docs) = 1
    /\ AddReturned(<<"client", 2>>) /\ Len(call[<<"client", 2>>].docs) = 1
    /\ call[<<"client", 1>>].docs = call[<<"client", 2>>].docs
    /\ passed = 2
    /\ Len(documents) = 2

SearchReturned(t) == call[t].op = "search" /\ call[t].pc = "ret"

\* C14: the list a search(q, k) call has built holds at most
\* min(k, number of documents the store held when the index was queried)
\* results (none when the store was empty at the call), and its distances
\* are non-decreasing from first to last.
C14_AtMostKAscending ==
    \A t \in Threads :
        call[t].op = "search" =>
            /\ Len(call[t].out) <= Min(call[t].k, call[t].count)
            /\ \A j \in 1..(Len(call[t].out) - 1) :
                  call[t].out[j].distance <= call[t].out[j + 1].distance

\* A search that returned two results at different distances, the nearer
\* one being the document added last.
C14_Witness ==
    \E t \in Threads :
        /\ SearchReturned(t)
        /\ ~call[t].raised
        /\ call[t].k = 2
        /\ Len(call[t].out) = 2
        /\ call[t].out[1].distance < call[t].out[2].distance
        /\ call[t].out[1].doc = documents[2]

\* The step in which the clear() call of thread t returns.
ClearReturns(t) == call[t].pc = "clear_docs" /\ call'[t].pc = "ret"

\* The step in which thread t calls search.
SearchCalled(t) == Idle(t) /\ call'[t].op = "search" /\ call'[t] # call[t]

\* The step in which the add_documents call of thread t passes index.add.
AddIndexes(t) == call[t].pc = "add_lock" /\ call'[t].pc = "add_store"

\* C15: when clear() returns the document list and the index are both
\* empty and the lock is free (so get_all_documents returns the empty
\* list); a search called on the store as clear left it returns the empty
\* sequence without raising, for every query and k; and an add_documents
\* that follows starts from an empty index: the index then holds the
\* vectors of that call only.
C15_EmptyAfterClear ==
    [][\A t \in Threads :
          /\ ClearReturns(t) =>
                 documents' = <<>> /\ index' = <<>> /\ lock' = Free
          /\ (SearchCalled(t) /\ documents = <<>>) =>
                 /\ call'[t].pc = "ret"
                 /\ call'[t].out = <<>>
                 /\ ~call'[t].raised
          /\ (AddIndexes(t) /\ documents = <<>>) =>
                 index' = call[t].all_embeddings]_vars

\* A store that held a document was cleared, and the search called next
\* returned nothing.
C15_Witness ==
    /\ call[<<"client", 2>>].op = "clear" /\ call[<<"client", 2>>].pc = "ret"
    /\ SearchReturned(<<"client", 1>>)
    /\ call[<<"client", 1>>].out = <<>>
    /\ call[<<"client", 1>>].hits = <<>>
    /\ documents = <<>>
    /\ index = <<>>
    /\ embedding[1] # NoEmbedding

\* ----------------------------------------------------------- RelevanceSpec

Scored == relevance_scores # <<>>

\* C19 (as claimed): the relevance is strictly decreasing in the distance
\* (d1 < d2 implies r(d1) > r(d2)) and lies in (0, 1] for every distance
\* d >= 0.
C19_StrictlyDecreasing ==
    Scored =>
        /\ \A j \in DOMAIN relevance_scores :
              /\ Less(Zero, relevance_scores[j])
              /\ ~Less(One, relevance_scores[j])
        /\ Less(search_distances[1], search_distances[2]) =>
              Less(relevance_scores[2], relevance_scores[1])

\* The distances above which 1.0 + d keeps every bit of d.
Absorbed == [num |-> 1, den |-> 2^(Precision - DistPrecision)]

\* C19 (amended): the relevance lies in (0, 1] for every distance d >= 0,
\* is 1 at distance 0, and never increases with the distance (d1 < d2
\* implies r(d1) >= r(d2)); it is strictly decreasing (r(d1) > r(d2))
\* whenever d2 is above the size at which the sum 1.0 + d, rounded, stops
\* telling neighbouring distances apart.
C19_NonIncreasing ==
    Scored =>
        /\ \A j \in DOMAIN relevance_scores :
              /\ Less(Zero, relevance_scores[j])
              /\ ~Less(One, relevance_scores[j])
              /\ search_distances[j] = Zero => relevance_scores[j] = One
        /\ Less(search_distances[1], search_distances[2]) =>
              /\ ~Less(relevance_scores[1], relevance_scores[2])
              /\ Less(Absorbed, search_distances[2]) =>
                    Less(relevance_scores[2], relevance_scores[1])

\* Two small distances, the second larger, scored the same.
C19_Witness ==
    /\ Scored
    /\ Less(search_distances[1], search_distances[2])
    /\ Less(Zero, search_distances[1])
    /\ relevance_scores[1] = relevance_scores[2]

\* ----------------------------------------------------------------- RagSpec

AskReturned(t) == ask[t].pc = "returned"

\* The step in which the ask_question call of thread t leaves its with
\* block.
Appends(t) == ask[t].pc = "append" /\ ask'[t].pc = "returned"

\* C16: an ask_question call that retrieved at least one document has
\* appended exactly one turn when it returns (and a call that retrieved none
\* has appended none); every step that changes the conversation history
\* either is such a call adding its one turn at the end, the turns already
\* there staying as they are and in place, or is a clear_conversation call
\* emptying it, whatever the interleaving of the asking threads.
C16_HistoryAppendOnly ==
    /\ [](\A t \in Askers :
            AskReturned(t) =>
                ask[t].appends = IF ask[t].search_results # <<>> THEN 1 ELSE 0)
    /\ [][\/ conversation_history' = conversation_history
          \/ /\ conv_clears' = conv_clears + 1
             /\ conversation_history' = <<>>
          \/ \E t \in Askers :
                /\ Appends(t)
                /\ conversation_history' =
                      Append(conversation_history, Turn(t))]_vars

\* Two calls in flight together have each added their turn: the one that
\* took the lock second is second in the history.
C16_Witness ==
    /\ \A t \in Askers : AskReturned(t) /\ ask[t].appends = 1
    /\ conv_clears = 0
    /\ Len(conversation_history) = 2
    /\ conversation_history[1].timestamp = <<"asker", 2>>
    /\ conversation_history[2].timestamp = <<"asker", 1>>

\* The step in which the ask_question call of thread t calls search.
AskSearches(t) ==
    ask[t].pc = "search" /\ call[t].op = "none" /\ call'[t].op = "search"

\* C17: the search an ask_question call makes on a store holding no
\* documents returns nothing, and a call whose search returned nothing
\* returns the fixed answer text, an empty sources list and confidence 0.0,
\* without having called the answer generator.
C17_EmptyStoreFallback ==
    /\ [][\A t \in Askers :
            (AskSearches(t) /\ documents = <<>>) =>
                /\ call'[t].pc = "ret"
                /\ call'[t].out = <<>>
                /\ ~call'[t].raised]_vars
    /\ [](\A t \in Askers :
            (AskReturned(t) /\ ask[t].search_results = <<>>) =>
                /\ ask[t].result.answer = FallbackAnswer
                /\ ask[t].result.sources = <<>>
                /\ ask[t].result.confidence = Zero
                /\ ~ask[t].generator_called)

\* A question asked of a store that never held a document.
C17_Witness ==
    /\ \A d \in Docs : embedding[d] = NoEmbedding
    /\ documents = <<>>
    /\ call[Operator].op = "none"
    /\ AskReturned(<<"asker", 1>>)
    /\ ask[<<"asker", 1>>].result.answer = FallbackAnswer
    /\ ask[<<"asker", 1>>].result.sources = <<>>

\* C18: every result ask_question returns, in the empty-store case as in
\* the normal case, has the four fields answer, sources, confidence and
\* total_sources_found, and total_sources_found is the number of entries
\* of sources.
C18_ResultHasFourFields ==
    \A t \in Askers :
        AskReturned(t) =>
            /\ DOMAIN ask[t].result =
                  {"answer", "sources", "confidence", "total_sources_found"}
            /\ ask[t].result.total_sources_found = Len(ask[t].result.sources)

\* Where the questions about a source kind stand: news, then twitter, then
\* youtube, then the analytical ones.
Rank(about) ==
    CASE about = "news" -> 1
      [] about = "twitter" -> 2
      [] about = "youtube" -> 3
      [] OTHER -> 4

\* C20: get_suggested_questions returns at most six questions; the
\* questions about the source kinds present in the store come first, in the
\* order news, twitter, youtube and two for each kind present, none about
\* a kind that is absent, and the analytical questions only follow them;
\* so with news and twitter documents in the store a news question and a
\* twitter question stand before every analytical one.
C20_SuggestionsOrdered ==
    suggestions # <<>> =>
        LET present == {SourceTypeOf(all_docs[p]) : p \in DOMAIN all_docs}
            about(j) == suggestions[j].about
        IN  /\ Len(suggestions) <= 6
            /\ \A j \in DOMAIN suggestions :
                  about(j) \in present \cup {"general"}
            /\ \A j \in 1..(Len(suggestions) - 1) :
                  Rank(about(j)) <= Rank(about(j + 1))
            /\ \A kind \in present :
                  Cardinality({j \in DOMAIN suggestions : about(j) = kind}) = 2
            /\ {"news", "twitter"} \subseteq present =>
                  \A g \in DOMAIN suggestions :
                      about(g) = "general" =>
                          /\ \E j \in 1..(g - 1) : about(j) = "news"
                          /\ \E j \in 1..(g - 1) : about(j) = "twitter"

\* Suggestions for a store holding a news and a twitter document.
C20_Witness ==
    /\ {SourceTypeOf(all_docs[p]) : p \in DOMAIN all_docs} = {"news", "twitter"}
    /\ Len(suggestions) = 6
    /\ suggestions[1].about = "news"
    /\ suggestions[3].about = "twitter"
    /\ suggestions[5].about = "general"

\* ------------------------------------------------- StoreSpec (continued)

\* C21: no VectorStore call reads or writes self.documents or self.index at
\* a moment the calling thread does not hold self.lock.
C21_EveryAccessLocked ==
    \A t \in Threads : ~call[t].unlocked

\* ------------------------------------------------- FetchSpec (continued)

\* C22: whatever a fetcher call returned, live results or placeholders, it
\* is at most the item cap the fetcher asks its provider for.
C22_ReturnsAtMostItemCap ==
    \A s \in SourceKinds : Len(fres[s].docs) <= ItemCap(s)

\* ---------------------------------------------- PipelineSpec (continued)

StatusComplete ==
    /\ processing_status.progress = 100
    /\ ~processing_status.is_processing

\* C23: whenever the status reads progress 100 with is_processing false,
\* current_analysis holds a snapshot; and the step that flips the status to
\* complete is taken with the run's own snapshot, or a later one, in place.
C23_CompleteImpliesSnapshot ==
    /\ StatusComplete => current_analysis # NoAnalysis
    /\ \A r \in Runs :
          rpc[r] \in {"complete", "done"} => current_analysis # NoAnalysis

C23_Witness ==
    /\ StatusComplete
    /\ \E r \in Runs : rpc[r] = "done" /\ current_analysis = SnapshotOf(r)

ExecutingStage(r) ==
    rpc[r] \in {"fetch", "index", "sentiment", "analysis", "publish"}

\* C24: whenever the status reads is_processing false, no run is inside one
\* of its stages.
C24_IdleStatusMeansNoRun ==
    ~processing_status.is_processing => \A r \in Runs : ~ExecutingStage(r)

\* --------------------------------------------------- RagSpec (continued)

\* The sum of a list of floats as an exact fraction, no rounding.
RECURSIVE ExactSum(_)
ExactSum(x) ==
    IF x = <<>> THEN Zero
    ELSE LET a == ExactSum(SubSeq(x, 1, Len(x) - 1))
             b == x[Len(x)]
         IN  [num |-> a.num * b.den + b.num * a.den, den |-> a.den * b.den]

Abs(n) == IF n < 0 THEN -n ELSE n

CitationScores(result) ==
    [j \in DOMAIN result.sources |-> result.sources[j].relevance_score]

\* c is the mean of x as floats give it: at most one rounding for each of
\* the Len(x) - 1 additions and one for the division away from the exact
\* mean.
IsFloatMean(c, x) ==
    LET sum == ExactSum(x)
        n == Len(x)
    IN  Abs(c.num * sum.den * n - sum.num * c.den) * 2^Precision
            <= (n + 1) * sum.num * c.den

\* C25: a returned result with citations has as confidence the mean of the
\* citations' relevance scores (sum divided by count, in float arithmetic;
\* the cap at 1.0 changes nothing), a number in (0, 1]; the citations are
\* the retrieved documents in retrieval order with the scores of their
\* distances, so the scores never increase along the list.
C25_ConfidenceIsMean ==
    \A t \in Askers :
        (AskReturned(t) /\ ask[t].result.sources # <<>>) =>
            LET r == ask[t].result
                x == CitationScores(r)
                avg == FloatDiv(FloatSum(x), FloatOf(Len(x)))
            IN  /\ r.confidence = IF Less(One, avg) THEN One ELSE avg
                /\ IsFloatMean(r.confidence, x)
                /\ Less(Zero, r.confidence) /\ ~Less(One, r.confidence)
                /\ Len(x) = Len(ask[t].search_results)
                /\ \A j \in DOMAIN x :
                       x[j] = relevance(FloatOf(ask[t].search_results[j].distance))
                /\ \A i, j \in DOMAIN x : i < j => ~Less(x[i], x[j])

\* A result with citations of different scores, whose mean took a rounding.
C25_Witness ==
    \E t \in Askers :
        /\ AskReturned(t)
        /\ Len(ask[t].result.sources) >= 2
        /\ LET x == CitationScores(ask[t].result)
               sum == ExactSum(x)
               c == ask[t].result.confidence
           IN  /\ Less(x[Len(x)], x[1])
               /\ c.num * sum.den * Len(x) # sum.num * c.den

\* ------------------------------------------------- StoreSpec (continued)

\* Thread t computes an embedding in this step: a chunk of add_documents
\* comes back from the encoder, or search encodes its query.
Encodes(t) ==
    \/ /\ call'[t].all_embeddings # call[t].all_embeddings
       /\ call'[t].all_embeddings # <<>>
    \/ /\ call'[t].query_embedding # call[t].query_embedding
       /\ call'[t].query_embedding # NoEmbedding

\* Thread t acquires the store's lock in this step (search takes it and
\* gives it back within its index query).
Acquires(t) ==
    \/ lock # t /\ lock' = t
    \/ call[t].pc = "search_lock" /\ call'[t].pc # "search_lock"

\* C26: a thread whose embeddings are being computed does not hold the
\* store's lock, before or after the step that computes one; and when a
\* thread acquires the lock in add_documents or search, its embeddings are
\* all there: one per document, or the query's.
C26_EncodeOutsideLock ==
    /\ [](\A t \in Threads : call[t].pc = "add_encode" => lock # t)
    /\ [][\A t \in Threads :
            /\ Encodes(t) => lock # t /\ lock' # t /\ ~Acquires(t)
            /\ (Acquires(t) /\ call'[t].op = "add") =>
                   Len(call[t].all_embeddings) = Len(call[t].docs)
            /\ (Acquires(t) /\ call'[t].op = "search") =>
                   call[t].query_embedding = encode(call[t].query)]_vars

\* A chunk of one thread's batch is encoded, the rest is not, and another
\* thread is inside its critical section.
C26_Witness ==
    \E t, u \in Threads :
        /\ t # u
        /\ call[t].pc = "add_encode"
        /\ call[t].all_embeddings # <<>>
        /\ lock = u

\* ----------------------------------------------------------- CycleSpec

\* Thread t is at a with statement, about to take the store's lock or the
\* conversation lock.
WaitsForStoreLock(t) == call[t].pc \in {"search_lock", "add_lock"}
WaitsForConversationLock(t) == t \in Askers /\ ask[t].pc = "lock"

\* C27: no thread holds the store's lock and the conversation lock
\* together; a thread about to take either lock holds neither; and the
\* holder of a lock always has its next step enabled (for the conversation
\* lock: it is at the append, which nothing else guards), a step that needs
\* no lock, so the waiting threads are never stuck.
C27_LocksNeverNested ==
    \A t \in Threads :
        /\ ~(lock = t /\ rag_lock = t)
        /\ (WaitsForStoreLock(t) \/ WaitsForConversationLock(t))
               => (lock # t /\ rag_lock # t)
        /\ lock = t => ENABLED StoreStep(t)
        /\ (t \in Askers /\ rag_lock = t) => ask[t].pc = "append"

\* Both locks are held, by different threads, and a third thread is about
\* to take the store's lock.
C27_Witness ==
    \E t, u \in Askers :
        /\ t # u
        /\ rag_lock = t
        /\ lock = Operator
        /\ WaitsForStoreLock(u)

\* ------------------------------------------------------ FairPipelineSpec

Ended(r) == rpc[r] \in {"done", "failed"}

\* C28: every started run ends; the step that ends it publishes
\* is_processing false, with progress 100 or with progress 0 and the error
\* message; and when every started run has ended the status reads
\* is_processing false.
C28_EveryRunEnds ==
    /\ \A r \in Runs : (rpc[r] # "unstarted") ~> Ended(r)
    /\ [][\A r \in Runs :
            (~Ended(r) /\ Ended(r)') =>
                /\ ~processing_status'.is_processing
                /\ \/ /\ rpc'[r] = "done"
                      /\ processing_status'.progress = 100
                   \/ /\ rpc'[r] = "failed"
                      /\ processing_status'.progress = 0
                      /\ processing_status'.message = ErrorMessage(rfault[r])]_vars
    /\ []((nextRun > 0 /\ \A r \in Runs : rpc[r] = "unstarted" \/ Ended(r))
            => ~processing_status.is_processing)

\* Two overlapping runs have ended, one of them in the except clause.
C28_Witness ==
    \E r, q \in Runs :
        /\ rpc[r] = "failed" /\ rpc[q] = "done"
        /\ overlapped[r]
        /\ ~processing_status.is_processing

\* --------------------------------------------------- RagSpec (continued)

\* The step in which the ask_question call of thread t returns from line 20.
ReturnsNothingFound(t) ==
    /\ ask[t].pc = "search" /\ ask'[t].pc = "returned"
    /\ ask'[t].result.sources = <<>>

\* C29: an ask_question call whose search found nothing has touched
\* neither the conversation history nor its lock: nothing is appended up to
\* the search, and the step that returns the fallback result leaves the
\* history as it is.
C29_NothingFoundAppendsNothing ==
    /\ [](\A t \in Askers : ask[t].pc = "search" => ask[t].appends = 0)
    /\ [][\A t \in Askers :
            ReturnsNothingFound(t) =>
                /\ conversation_history' = conversation_history
                /\ rag_lock' = rag_lock
                /\ ask'[t].appends = 0]_vars

\* One call answered from a document and is in the history; the other
\* found nothing and is not.
C29_Witness ==
    \E t, u \in Askers :
        /\ t # u
        /\ AskReturned(t) /\ ask[t].result.sources = <<>>
        /\ AskReturned(u) /\ ask[u].result.sources # <<>>
        /\ conversation_history = <<Turn(u)>>
        /\ conv_clears = 0

====
